---------------------------- MODULE Spec2Model ----------------------------
(***************************************************************************)
(* Model of libwmctl: the WinOpt placement request (lib.rs) and the        *)
(* window-manager session WinMgr (winmgr.rs).                              *)
(*                                                                         *)
(* Option<T> is a sequence: None is <<>>, Some(v) is <<v>>.                *)
(* u32 values are TLC integers; a u32 at or above 2^31 (only ever the      *)
(* result of a wrapped subtraction) is written as its two's-complement     *)
(* integer v - 2^32, because TLC integers are 32 bits wide.                *)
(***************************************************************************)
EXTENDS Integers, Sequences, FiniteSets, TLC

None == <<>>
Some(v) == <<v>>
is_some(o) == o # None
is_none(o) == o = None
unwrap(o) == o[1]
unwrap_or(o, d) == IF o = None THEN d ELSE o[1]

(***************************************************************************)
(* Protocol vocabulary                                                     *)
(***************************************************************************)
\* atoms of the session's AtomCollection (ids are assigned by the server)
NET_WM_STATE == 301
NET_WM_STATE_MAXIMIZED_HORZ == 302
NET_WM_STATE_MAXIMIZED_VERT == 303
NET_MOVERESIZE_WINDOW == 304

WINDOW_STATE_ACTION_REMOVE == 0
WINDOW_STATE_ACTION_ADD == 1

\* presence bits of the move-resize flags word (second byte)
MOVE_RESIZE_WINDOW_X == 256
MOVE_RESIZE_WINDOW_Y == 512
MOVE_RESIZE_WINDOW_WIDTH == 1024
MOVE_RESIZE_WINDOW_HEIGHT == 2048

\* WinGravity::Center.into()
GravityCenter == 5

\* EventMask::SUBSTRUCTURE_REDIRECT | EventMask::SUBSTRUCTURE_NOTIFY
SubstructureMask == {"SUBSTRUCTURE_REDIRECT", "SUBSTRUCTURE_NOTIFY"}

\* std::time::Duration::from_millis(50)
ResendDelayMs == 50

\* width in bits of the words the bit operations run over
FlagBits == 12

WinShape == {"Max", "UnMax", "Grow", "Shrink", "Halfw", "Halfh", "Small",
             "Medium", "Large", "Ratio4x3"}

WinPosition == {"Center", "Left", "Right", "Top", "Bottom", "TopLeft",
                "TopRight", "BottomLeft", "BottomRight", "LeftCenter",
                "RightCenter", "TopCenter", "BottomCenter"}

(***************************************************************************)
(* The world the program talks to                                          *)
(***************************************************************************)
\* window ids: the root, a window the caller names explicitly, and the
\* window _NET_ACTIVE_WINDOW names
WindowIds == [root |-> 1, named |-> 11, active |-> 12]
RootWin == WindowIds.root
WinA == WindowIds.named
WinB == WindowIds.active

\* screens: pixel size and work area of the root window
Screens == { [width |-> 1920, height |-> 1080, work_width |-> 1920, work_height |-> 1080],
             [width |-> 1000, height |-> 1000, work_width |-> 1000, work_height |-> 960] }

\* target windows: raw geometry, translated origin, _NET_FRAME_EXTENTS and
\* _GTK_FRAME_EXTENTS (None when the property is absent)
XWindows == { [gx |-> 5, gy |-> 25, tx |-> 105, ty |-> 225, gw |-> 800, gh |-> 600,
               net |-> Some(<<2, 2, 20, 2>>), gtk |-> None],
              [gx |-> 0, gy |-> 0, tx |-> 40, ty |-> 60, gw |-> 1280, gh |-> 1415,
               net |-> Some(<<0, 0, 0, 0>>), gtk |-> Some(<<23, 23, 15, 31>>)],
              [gx |-> 0, gy |-> 0, tx |-> 0, ty |-> 0, gw |-> 640, gh |-> 636,
               net |-> Some(<<0, 0, 0, 0>>), gtk |-> None],
              [gx |-> 0, gy |-> 0, tx |-> 10, ty |-> 10, gw |-> 400, gh |-> 300,
               net |-> None, gtk |-> None] }

\* what _NET_ACTIVE_WINDOW holds
ActiveChoices == {None, Some(WinB)}

\* arguments the caller passes to the builder
SizeArgs == {<<800, 600>>, <<3000, 2000>>}
LocationArgs == {<<0, 0>>, <<100, 200>>}
WinArgs == {None, Some(WinA)}

\* arguments of direct move_resize_window calls
GravityArgs == {None, Some(0), Some(GravityCenter), Some(10)}
CoordArgs == {None, Some(0), Some(7)}
DimArgs == {None, Some(7)}

VARIABLES
    opt,      \* the WinOpt under construction (None before WinOpt::new)
    x11,      \* the server state: screen, target window properties, active window
    pc,       \* position of the running operation
    call,     \* the operation the caller invoked and its arguments
    loc,      \* locals of the running operation
    sendpc,   \* position inside send_event
    msg,      \* the ClientMessageEvent send_event is delivering
    log,      \* transport requests issued so far, in order
    result    \* what the operation returned

vars == <<opt, x11, pc, call, loc, sendpc, msg, log, result>>

Ok(v) == [ok |-> TRUE, val |-> v, err |-> ""]
Err(e) == [ok |-> FALSE, val |-> <<>>, err |-> e]
NoResult == [ok |-> FALSE, val |-> <<>>, err |-> "pending"]


(***************************************************************************)
(* Bit operations on non-negative words                                    *)
(***************************************************************************)
Pow2(n) == 2^n
Bit(v, i) == (v \div Pow2(i)) % 2

RECURSIVE BitOrFrom(_, _, _)
BitOrFrom(a, b, i) ==
    IF i = FlagBits THEN 0
    ELSE (IF Bit(a, i) = 1 \/ Bit(b, i) = 1 THEN Pow2(i) ELSE 0) + BitOrFrom(a, b, i + 1)

\* a | b
BitOr(a, b) == BitOrFrom(a, b, 0)

(***************************************************************************)
(* WinOpt builder (lib.rs)                                                 *)
(***************************************************************************)
WinOptNew(win) ==
    [win |-> win, w |-> None, h |-> None, x |-> None, y |-> None,
     shape |-> None, pos |-> None]

\* WinOpt::size
size(w, h) ==
    /\ pc = "build"
    /\ opt' = [opt EXCEPT !.w = Some(w), !.h = Some(h), !.shape = None]
    /\ UNCHANGED <<x11, pc, call, loc, sendpc, msg, log, result>>

\* WinOpt::location
location(x, y) ==
    /\ pc = "build"
    /\ opt' = [opt EXCEPT !.x = Some(x), !.y = Some(y), !.pos = None]
    /\ UNCHANGED <<x11, pc, call, loc, sendpc, msg, log, result>>

\* a shape call that forgets the guard on explicit width/height
shape_unguarded(s) ==
    /\ pc = "build"
    /\ opt' = [opt EXCEPT !.shape = Some(s)]
    /\ UNCHANGED <<x11, pc, call, loc, sendpc, msg, log, result>>

\* WinOpt::shape
shape(s) ==
    /\ pc = "build"
    /\ opt' = IF is_none(opt.w) /\ is_none(opt.h)
              THEN [opt EXCEPT !.shape = Some(s)]
              ELSE opt
    /\ UNCHANGED <<x11, pc, call, loc, sendpc, msg, log, result>>

\* WinOpt::pos
pos(p) ==
    /\ pc = "build"
    /\ opt' = IF is_none(opt.x) /\ is_none(opt.y)
              THEN [opt EXCEPT !.pos = Some(p)]
              ELSE opt
    /\ UNCHANGED <<x11, pc, call, loc, sendpc, msg, log, result>>

\* an any() that always reports something to do
any_always(o) == TRUE

\* WinOpt::any
any(o) ==
    is_some(o.w) \/ is_some(o.h) \/ is_some(o.x) \/ is_some(o.y) \/
    is_some(o.shape) \/ is_some(o.pos)

(***************************************************************************)
(* Per-window queries (winmgr.rs)                                          *)
(***************************************************************************)
\* WinMgr::active_window: the first value of _NET_ACTIVE_WINDOW
active_window(x) ==
    IF is_some(x.active) THEN Ok(unwrap(x.active))
    ELSE Err("PropertyNotFound(_NET_ACTIVE_WINDOW)")

\* WinMgr::window_borders: _NET_FRAME_EXTENTS, an error when absent
window_borders(xw) ==
    IF is_some(xw.net) THEN Ok(unwrap(xw.net))
    ELSE Err("PropertyNotFound(_NET_FRAME_EXTENTS)")

\* WinMgr::window_gnome_borders: _GTK_FRAME_EXTENTS, zero when absent
window_gnome_borders(xw) ==
    IF is_none(xw.gtk) THEN Ok(<<0, 0, 0, 0>>)
    ELSE Ok(unwrap(xw.gtk))

\* a request that cannot reach the server fails; otherwise the reply decides
Reply(io, r) == IF io THEN r ELSE Err("ConnectionError")

\* the requests window_geometry issues, and which of them the server answers
GeometryRequests == {"get_geometry", "translate_coordinates",
                     "_NET_FRAME_EXTENTS", "_GTK_FRAME_EXTENTS"}
GeometryIO == [GeometryRequests -> BOOLEAN]
AllAnswered == [q \in GeometryRequests |-> TRUE]

\* a window_geometry that contracts by the shadow extents whatever the
\* window-manager borders are
window_geometry_shadow_always(xw, io) ==
    IF ~io["get_geometry"] \/ ~io["translate_coordinates"] THEN Err("ConnectionError")
    ELSE LET b == Reply(io["_NET_FRAME_EXTENTS"], window_borders(xw)) IN
    IF ~b.ok THEN b
    ELSE LET gb == Reply(io["_GTK_FRAME_EXTENTS"], window_gnome_borders(xw)) IN
         IF ~gb.ok THEN gb
         ELSE LET g == gb.val IN
              Ok(<<xw.tx + g[1], xw.ty + g[3],
                   xw.gw - (g[1] + g[2]), xw.gh - (g[3] + g[4])>>)

\* a window_geometry that expands by the shadow extents instead of contracting
window_geometry_shadow_expands(xw, io) ==
    IF ~io["get_geometry"] \/ ~io["translate_coordinates"] THEN Err("ConnectionError")
    ELSE LET b == Reply(io["_NET_FRAME_EXTENTS"], window_borders(xw)) IN
    IF ~b.ok THEN b
    ELSE LET l == b.val[1]  r == b.val[2]  t == b.val[3]  bt == b.val[4] IN
         IF l # 0 \/ r # 0 \/ t # 0 \/ bt # 0
         THEN Ok(<<xw.tx - l, xw.ty - t, xw.gw + l + r, xw.gh + t + bt>>)
         ELSE LET gb == Reply(io["_GTK_FRAME_EXTENTS"], window_gnome_borders(xw)) IN
              IF ~gb.ok THEN gb
              ELSE LET g == gb.val IN
                   Ok(<<xw.tx - g[1], xw.ty - g[3],
                        xw.gw + (g[1] + g[2]), xw.gh + (g[3] + g[4])>>)

\* WinMgr::window_geometry: the translated rectangle, expanded by the
\* window-manager borders or else contracted by the shadow extents; a
\* contraction below zero is written as the wrapped value
window_geometry(xw, io) ==
    IF ~io["get_geometry"] \/ ~io["translate_coordinates"] THEN Err("ConnectionError")
    ELSE LET b == Reply(io["_NET_FRAME_EXTENTS"], window_borders(xw)) IN
    IF ~b.ok THEN b
    ELSE LET l == b.val[1]  r == b.val[2]  t == b.val[3]  bt == b.val[4] IN
         IF l # 0 \/ r # 0 \/ t # 0 \/ bt # 0
         THEN Ok(<<xw.tx - l, xw.ty - t, xw.gw + l + r, xw.gh + t + bt>>)
         ELSE LET gb == Reply(io["_GTK_FRAME_EXTENTS"], window_gnome_borders(xw)) IN
              IF ~gb.ok THEN gb
              ELSE LET g == gb.val IN
                   Ok(<<xw.tx + g[1], xw.ty + g[3],
                        xw.gw - (g[1] + g[2]), xw.gh - (g[3] + g[4])>>)

\* whether w - (l + r) or h - (t + b) of window_geometry goes below zero
window_geometry_overflows(xw, io) ==
    /\ window_geometry(xw, io).ok
    /\ unwrap(xw.net) = <<0, 0, 0, 0>>
    /\ LET g == window_gnome_borders(xw).val IN
          xw.gw < g[1] + g[2] \/ xw.gh < g[3] + g[4]

(***************************************************************************)
(* Window name (winmgr.rs). A property reply carries the type of the       *)
(* property ("NONE" when the window has no such property) and its bytes.   *)
(***************************************************************************)
\* str::from_utf8 on byte strings of one- and two-byte sequences (the lead
\* bytes of longer sequences are outside the bytes NameValues draws)
RECURSIVE Utf8Valid(_, _)
Utf8Valid(b, i) ==
    IF i > Len(b) THEN TRUE
    ELSE IF b[i] < 128 THEN Utf8Valid(b, i + 1)
    ELSE IF b[i] >= 194 /\ b[i] <= 223 /\ i + 1 <= Len(b)
            /\ b[i + 1] >= 128 /\ b[i + 1] <= 191
         THEN Utf8Valid(b, i + 2)
    ELSE FALSE

from_utf8(b) == IF Utf8Valid(b, 1) THEN Ok(b) ELSE Err("Utf8Error")

\* the test window_name applies to each reply: the property exists, its
\* value decodes and is not the empty string
name_of_reply(reply) ==
    IF reply.type_ # "NONE" /\ from_utf8(reply.value).ok
                           /\ from_utf8(reply.value).val # <<>>
    THEN Some(from_utf8(reply.value).val)
    ELSE None

\* a window_name that asks for _NET_WM_NAME before _NET_WM_VISIBLE_NAME
window_name_net_name_first(replies, io) ==
    IF ~io[2] THEN Err("ConnectionError")
    ELSE IF is_some(name_of_reply(replies[2])) THEN Ok(unwrap(name_of_reply(replies[2])))
    ELSE IF ~io[1] THEN Err("ConnectionError")
    ELSE IF is_some(name_of_reply(replies[1])) THEN Ok(unwrap(name_of_reply(replies[1])))
    ELSE IF ~io[3] THEN Err("ConnectionError")
    ELSE IF is_some(name_of_reply(replies[3])) THEN Ok(unwrap(name_of_reply(replies[3])))
    ELSE Err("PropertyNotFound(_NET_WM_NAME | _WM_NAME)")

\* WinMgr::window_name: replies[1..3] are what the server holds for
\* _NET_WM_VISIBLE_NAME, _NET_WM_NAME and WM_NAME, io[i] whether request i
\* is answered
window_name(replies, io) ==
    IF ~io[1] THEN Err("ConnectionError")
    ELSE IF is_some(name_of_reply(replies[1])) THEN Ok(unwrap(name_of_reply(replies[1])))
    ELSE IF ~io[2] THEN Err("ConnectionError")
    ELSE IF is_some(name_of_reply(replies[2])) THEN Ok(unwrap(name_of_reply(replies[2])))
    ELSE IF ~io[3] THEN Err("ConnectionError")
    ELSE IF is_some(name_of_reply(replies[3])) THEN Ok(unwrap(name_of_reply(replies[3])))
    ELSE Err("PropertyNotFound(_NET_WM_NAME | _WM_NAME)")

(***************************************************************************)
(* Action messages (winmgr.rs)                                             *)
(***************************************************************************)
\* ClientMessageEvent::new(32, window, type_, data)
ClientMessageEvent(format, window, type, data) ==
    [format |-> format, window |-> window, type |-> type, data |-> data]

\* the message WinMgr::maximize_window sends
maximize_msg(id) ==
    ClientMessageEvent(32, id, NET_WM_STATE,
        <<WINDOW_STATE_ACTION_ADD, NET_WM_STATE_MAXIMIZED_HORZ,
          NET_WM_STATE_MAXIMIZED_VERT, 0, 0>>)

\* the message WinMgr::unmaximize_window sends
unmaximize_msg(id) ==
    ClientMessageEvent(32, id, NET_WM_STATE,
        <<WINDOW_STATE_ACTION_REMOVE, NET_WM_STATE_MAXIMIZED_HORZ,
          NET_WM_STATE_MAXIMIZED_VERT, 0, 0>>)

\* a flags word that loses the height bit
move_resize_flags_no_height(gravity, x, y, w, h) ==
    LET f0 == unwrap_or(gravity, 0)
        f1 == IF is_some(x) THEN BitOr(f0, MOVE_RESIZE_WINDOW_X) ELSE f0
        f2 == IF is_some(y) THEN BitOr(f1, MOVE_RESIZE_WINDOW_Y) ELSE f1
        f3 == IF is_some(w) THEN BitOr(f2, MOVE_RESIZE_WINDOW_WIDTH) ELSE f2
    IN  f3

\* the flags word of WinMgr::move_resize_window
move_resize_flags(gravity, x, y, w, h) ==
    LET f0 == unwrap_or(gravity, 0)
        f1 == IF is_some(x) THEN BitOr(f0, MOVE_RESIZE_WINDOW_X) ELSE f0
        f2 == IF is_some(y) THEN BitOr(f1, MOVE_RESIZE_WINDOW_Y) ELSE f1
        f3 == IF is_some(w) THEN BitOr(f2, MOVE_RESIZE_WINDOW_WIDTH) ELSE f2
        f4 == IF is_some(h) THEN BitOr(f3, MOVE_RESIZE_WINDOW_HEIGHT) ELSE f3
    IN  f4

\* the message WinMgr::move_resize_window sends
move_resize_msg(id, gravity, x, y, w, h) ==
    ClientMessageEvent(32, id, NET_MOVERESIZE_WINDOW,
        <<move_resize_flags(gravity, x, y, w, h),
          unwrap_or(x, 0), unwrap_or(y, 0), unwrap_or(w, 0), unwrap_or(h, 0)>>)

(***************************************************************************)
(* WmCtl (wmctl.rs): the session handle lib.rs calls. Each method hands    *)
(* over to the WinMgr method it is named after.                            *)
(***************************************************************************)
active_win(x) == active_window(x)
win_borders(xw) == window_borders(xw)
win_geometry(xw, io) == window_geometry(xw, io)
maximize_win(id) == maximize_msg(id)
unmaximize_win(id) == unmaximize_msg(id)
move_resize_win(id, gravity, x, y, w, h) == move_resize_msg(id, gravity, x, y, w, h)

(***************************************************************************)
(* u32 arithmetic. A subtraction below zero aborts a build with overflow   *)
(* checks and wraps in one without: both outcomes are kept, the wrapped    *)
(* value together with the flag that the operation overflowed.             *)
(***************************************************************************)
\* unsigned a < b on the two's-complement writing of u32
ULt(a, b) == IF (a >= 0) = (b >= 0) THEN a < b ELSE b < 0

\* a - b: the wrapped value and whether it overflowed
USub(a, b) == [v |-> a - b, ovf |-> ULt(a, b)]

\* a + b: the wrapped value and whether it overflowed
UAdd(a, b) == [v |-> a + b,
               ovf |-> IF a >= 0 /\ b >= 0 THEN FALSE
                       ELSE IF a < 0 /\ b < 0 THEN TRUE
                       ELSE a + b >= 0]

\* a / 2
UDiv2(a) == IF a >= 0 THEN a \div 2
            ELSE ((a + 2147483647) + 1) \div 2 + 1073741824

\* a scaling that rounds to the nearest integer instead of truncating
FScale_rounding(v, num, den) == (2 * v * num + den) \div (2 * den)

\* (v as f32 * num/den) as u32 for the factors the code uses; exact below 2^22
FScale(v, num, den) == (v * num) \div den

(***************************************************************************)
(* Placement computations (lib.rs)                                         *)
(***************************************************************************)
\* a shape4x3 that scales the totals and leaves the vertical borders out
shape4x3_without_borders(w, h, bw, bh) ==
    LET tw == UAdd(w, bw)
        th == UAdd(h, bh)
    IN  IF ULt(th.v, tw.v)
        THEN [ovf |-> tw.ovf \/ th.ovf, w |-> Some(w), h |-> Some(FScale(tw.v, 3, 4))]
        ELSE IF ULt(tw.v, th.v)
        THEN [ovf |-> tw.ovf \/ th.ovf, w |-> Some(FScale(th.v, 4, 3)), h |-> Some(h)]
        ELSE [ovf |-> tw.ovf \/ th.ovf, w |-> None, h |-> None]

\* a shape4x3 that hands back the total width where it keeps the width
shape4x3_total_width(w, h, bw, bh) ==
    LET tw == UAdd(w, bw)
        th == UAdd(h, bh)
    IN  IF ULt(th.v, tw.v)
        THEN LET d == USub(tw.v, bh) IN
             [ovf |-> tw.ovf \/ th.ovf \/ d.ovf,
              w |-> Some(tw.v), h |-> Some(FScale(d.v, 3, 4))]
        ELSE IF ULt(tw.v, th.v)
        THEN LET a == UAdd(th.v, bh) IN
             [ovf |-> tw.ovf \/ th.ovf \/ a.ovf,
              w |-> Some(FScale(a.v, 4, 3)), h |-> Some(h)]
        ELSE [ovf |-> tw.ovf \/ th.ovf, w |-> None, h |-> None]

\* shape4x3: change the shorter side to a 4x3 ratio
shape4x3(w, h, bw, bh) ==
    LET tw == UAdd(w, bw)
        th == UAdd(h, bh)
    IN  IF ULt(th.v, tw.v)
        THEN LET d == USub(tw.v, bh) IN
             [ovf |-> tw.ovf \/ th.ovf \/ d.ovf,
              w |-> Some(w), h |-> Some(FScale(d.v, 3, 4))]
        ELSE IF ULt(tw.v, th.v)
        THEN LET a == UAdd(th.v, bh) IN
             [ovf |-> tw.ovf \/ th.ovf \/ a.ovf,
              w |-> Some(FScale(a.v, 4, 3)), h |-> Some(h)]
        ELSE [ovf |-> tw.ovf \/ th.ovf, w |-> None, h |-> None]

\* the state-change message shape_win sends before computing anything
shape_win_msg(win, s) ==
    IF s = "Max" THEN maximize_win(win) ELSE unmaximize_win(win)

\* a shape_win that treats Max and UnMax as sizing shapes
shape_win_max_sized(scr, w, h, bw, bh, s) ==
    IF s \in {"Max", "UnMax"}
    THEN [ovf |-> FALSE, gravity |-> Some(GravityCenter),
          w |-> Some(scr.work_width), h |-> Some(scr.work_height)]
    ELSE [ovf |-> FALSE, gravity |-> Some(GravityCenter), w |-> Some(w), h |-> Some(h)]

\* shape_win: gravity, width and height for a shape, given the session's
\* screen, the current size and the border sums
shape_win(scr, w, h, bw, bh, s) ==
    IF s \in {"Max", "UnMax"}
    THEN [ovf |-> FALSE, gravity |-> None, w |-> None, h |-> None]
    ELSE
    LET w10 == FScale(w, 1, 10)
        h10 == FScale(h, 1, 10)
        halfw == USub(UDiv2(scr.work_width), bw)
        halfh == USub(UDiv2(scr.work_height), bh)
        fullw == USub(scr.work_width, bw)
        fullh == USub(scr.work_height, bh)
        r == CASE s = "Grow" ->
                    [ovf |-> UAdd(w, w10).ovf \/ UAdd(h, h10).ovf,
                     w |-> Some(UAdd(w, w10).v), h |-> Some(UAdd(h, h10).v)]
               [] s = "Halfw" ->
                    [ovf |-> halfw.ovf \/ fullh.ovf, w |-> Some(halfw.v), h |-> Some(fullh.v)]
               [] s = "Halfh" ->
                    [ovf |-> fullw.ovf \/ halfh.ovf, w |-> Some(fullw.v), h |-> Some(halfh.v)]
               [] s = "Small" ->
                    [ovf |-> halfw.ovf \/ halfh.ovf, w |-> Some(halfw.v), h |-> Some(halfh.v)]
               [] s = "Medium" ->
                    shape4x3(FScale(scr.width, 55, 100), FScale(scr.height, 70, 100), bw, bh)
               [] s = "Large" ->
                    shape4x3(FScale(scr.width, 75, 100), FScale(scr.height, 90, 100), bw, bh)
               [] s = "Shrink" ->
                    [ovf |-> USub(w, w10).ovf \/ USub(h, h10).ovf,
                     w |-> Some(USub(w, w10).v), h |-> Some(USub(h, h10).v)]
               [] s = "Ratio4x3" -> shape4x3(w, h, bw, bh)
               [] OTHER -> [ovf |-> FALSE, w |-> None, h |-> None]
    IN  [ovf |-> r.ovf, gravity |-> Some(GravityCenter), w |-> r.w, h |-> r.h]

\* a position table that fills the axis Left, Right, Top and Bottom leave alone
move_win_xy_both_axes(p, cx, cy, rx, by) ==
    CASE p = "Center" -> <<Some(cx), Some(cy)>>
      [] p = "Left" -> <<Some(0), Some(0)>>
      [] p = "Right" -> <<Some(rx), Some(0)>>
      [] p = "Top" -> <<Some(0), Some(0)>>
      [] p = "Bottom" -> <<Some(0), Some(by)>>
      [] p = "TopLeft" -> <<Some(0), Some(0)>>
      [] p = "TopRight" -> <<Some(rx), Some(0)>>
      [] p = "BottomLeft" -> <<Some(0), Some(by)>>
      [] p = "BottomRight" -> <<Some(rx), Some(by)>>
      [] p = "LeftCenter" -> <<Some(0), Some(cy)>>
      [] p = "RightCenter" -> <<Some(rx), Some(cy)>>
      [] p = "TopCenter" -> <<Some(cx), Some(0)>>
      [] p = "BottomCenter" -> <<Some(cx), Some(by)>>

\* move_win: "Interpret the position as x, y cordinates"
move_win_xy(p, cx, cy, rx, by) ==
    CASE p = "Center" -> <<Some(cx), Some(cy)>>
      [] p = "Left" -> <<Some(0), None>>
      [] p = "Right" -> <<Some(rx), None>>
      [] p = "Top" -> <<None, Some(0)>>
      [] p = "Bottom" -> <<None, Some(by)>>
      [] p = "TopLeft" -> <<Some(0), Some(0)>>
      [] p = "TopRight" -> <<Some(rx), Some(0)>>
      [] p = "BottomLeft" -> <<Some(0), Some(by)>>
      [] p = "BottomRight" -> <<Some(rx), Some(by)>>
      [] p = "LeftCenter" -> <<Some(0), Some(cy)>>
      [] p = "RightCenter" -> <<Some(rx), Some(cy)>>
      [] p = "TopCenter" -> <<Some(cx), Some(0)>>
      [] p = "BottomCenter" -> <<Some(cx), Some(by)>>

\* a move_win whose pre-calculations leave the borders out
move_win_without_borders(scr, w, h, bw, bh, p) ==
    LET cx == USub(UDiv2(scr.work_width), UDiv2(w))
        cy == USub(UDiv2(scr.work_height), UDiv2(h))
        rx == USub(scr.work_width, w)
        by == USub(scr.work_height, h)
        xy == move_win_xy(p, cx.v, cy.v, rx.v, by.v)
    IN  [ovf |-> cx.ovf \/ cy.ovf \/ rx.ovf \/ by.ovf, x |-> xy[1], y |-> xy[2]]

\* move_win: the pre-calculations and the x, y of a position preset for a
\* window of size w, h
move_win(scr, w, h, bw, bh, p) ==
    LET wb == UAdd(w, bw)
        hb == UAdd(h, bh)
        cx == USub(UDiv2(scr.work_width), UDiv2(wb.v))
        cy == USub(UDiv2(scr.work_height), UDiv2(hb.v))
        rx1 == USub(scr.work_width, w)
        rx == USub(rx1.v, bw)
        by1 == USub(scr.work_height, h)
        by == USub(by1.v, bh)
        xy == move_win_xy(p, cx.v, cy.v, rx.v, by.v)
    IN  [ovf |-> wb.ovf \/ hb.ovf \/ cx.ovf \/ cy.ovf \/ rx1.ovf \/ rx.ovf \/
                 by1.ovf \/ by.ovf,
         x |-> xy[1], y |-> xy[2]]

\* a place that keeps the gravity whatever else is requested
place_gravity_kept(o, gravity) == gravity

\* WinOpt::place: "Don't use gravity if positioning is required"
place_gravity(o, gravity) ==
    IF is_some(o.pos) \/ is_some(o.x) \/ is_some(o.y) THEN None ELSE gravity

(***************************************************************************)
(* send_event (winmgr.rs): the transport requests it issues, one step each *)
(***************************************************************************)
SendIdle == [st |-> "idle", at |-> 0]
SendStart == [st |-> "run", at |-> 1]

\* a send_event that never resends
send_event_steps_once(m) == <<"send_event", "check", "flush">>

\* a send_event that resends every message
send_event_steps_twice(m) ==
    <<"send_event", "check", "flush", "sleep", "send_event", "check", "flush">>

\* a send_event that flushes before it checks
send_event_steps_flush_first(m) ==
    IF m.type = NET_MOVERESIZE_WINDOW
    THEN <<"send_event", "flush", "check", "sleep", "send_event", "flush", "check">>
    ELSE <<"send_event", "flush", "check">>

\* the requests of send_event(msg), in program order
send_event_steps(m) ==
    IF m.type = NET_MOVERESIZE_WINDOW
    THEN <<"send_event", "check", "flush", "sleep", "send_event", "check", "flush">>
    ELSE <<"send_event", "check", "flush">>

\* a `?` that lets a failed request through
try_ignoring_errors(sp, ok, m) ==
    IF sp.at = Len(send_event_steps(m)) THEN [st |-> "ok", at |-> 0]
    ELSE [st |-> "run", at |-> sp.at + 1]

\* the `?` after each request: an error returns from send_event at once
try(sp, ok, m) ==
    IF ~ok THEN [st |-> "err", at |-> sp.at]
    ELSE IF sp.at = Len(send_event_steps(m)) THEN [st |-> "ok", at |-> 0]
    ELSE [st |-> "run", at |-> sp.at + 1]

Running(step) ==
    /\ sendpc.st = "run"
    /\ send_event_steps(msg)[sendpc.at] = step

Entry(op, ok) ==
    [op |-> op,
     dest |-> IF op = "send_event" THEN RootWin ELSE 0,
     mask |-> IF op = "send_event" THEN SubstructureMask ELSE {},
     msg |-> msg,
     ok |-> ok,
     ms |-> IF op = "sleep" THEN ResendDelayMs ELSE 0]

\* self.conn.send_event(false, self.root, mask, &msg)?
conn_send_event ==
    /\ Running("send_event")
    /\ \E ok \in BOOLEAN :
        /\ log' = Append(log, Entry("send_event", ok))
        /\ sendpc' = try(sendpc, ok, msg)
    /\ UNCHANGED <<opt, x11, pc, call, loc, msg, result>>

\* .check()?
cookie_check ==
    /\ Running("check")
    /\ \E ok \in BOOLEAN :
        /\ log' = Append(log, Entry("check", ok))
        /\ sendpc' = try(sendpc, ok, msg)
    /\ UNCHANGED <<opt, x11, pc, call, loc, msg, result>>

\* self.conn.flush()?
conn_flush ==
    /\ Running("flush")
    /\ \E ok \in BOOLEAN :
        /\ log' = Append(log, Entry("flush", ok))
        /\ sendpc' = try(sendpc, ok, msg)
    /\ UNCHANGED <<opt, x11, pc, call, loc, msg, result>>

\* std::thread::sleep(Duration::from_millis(50))
thread_sleep ==
    /\ Running("sleep")
    /\ log' = Append(log, Entry("sleep", TRUE))
    /\ sendpc' = try(sendpc, TRUE, msg)
    /\ UNCHANGED <<opt, x11, pc, call, loc, msg, result>>

Returned == sendpc.st \in {"ok", "err"}

(***************************************************************************)
(* Direct calls of the session's actions                                   *)
(***************************************************************************)
NoCall == [op |-> "none", id |-> 0, gravity |-> None, x |-> None, y |-> None,
           w |-> None, h |-> None]
NoLoc == [execute |-> FALSE, win |-> 0, bw |-> 0, bh |-> 0, w |-> 0, h |-> 0,
          gravity |-> None, sw |-> None, sh |-> None, x |-> None, y |-> None]

\* WinMgr::maximize_window
maximize_window(id) ==
    /\ pc = "idle"
    /\ call' = [NoCall EXCEPT !.op = "maximize_window", !.id = id]
    /\ msg' = maximize_msg(id)
    /\ sendpc' = SendStart
    /\ pc' = "api_ret"
    /\ UNCHANGED <<opt, x11, loc, log, result>>

\* WinMgr::unmaximize_window
unmaximize_window(id) ==
    /\ pc = "idle"
    /\ call' = [NoCall EXCEPT !.op = "unmaximize_window", !.id = id]
    /\ msg' = unmaximize_msg(id)
    /\ sendpc' = SendStart
    /\ pc' = "api_ret"
    /\ UNCHANGED <<opt, x11, loc, log, result>>

\* WinMgr::move_resize_window
move_resize_window(id, gravity, x, y, w, h) ==
    /\ pc = "idle"
    /\ call' = [op |-> "move_resize_window", id |-> id, gravity |-> gravity,
                x |-> x, y |-> y, w |-> w, h |-> h]
    /\ msg' = move_resize_msg(id, gravity, x, y, w, h)
    /\ sendpc' = SendStart
    /\ pc' = "api_ret"
    /\ UNCHANGED <<opt, x11, loc, log, result>>

\* send_event(...)?; Ok(())
api_return ==
    /\ pc = "api_ret"
    /\ Returned
    /\ result' = IF sendpc.st = "ok" THEN Ok(<<>>) ELSE Err("ConnectionError")
    /\ pc' = IF sendpc.st = "ok" THEN "done" ELSE "err"
    /\ sendpc' = SendIdle
    /\ UNCHANGED <<opt, x11, call, loc, msg, log>>

(***************************************************************************)
(* WinOpt::new and WinOpt::place (lib.rs)                                  *)
(***************************************************************************)
NoMsg == ClientMessageEvent(0, 0, 0, <<0, 0, 0, 0, 0>>)

\* WinOpt::new
new(win) ==
    /\ pc = "idle"
    /\ opt' = WinOptNew(win)
    /\ pc' = "build"
    /\ UNCHANGED <<x11, call, loc, sendpc, msg, log, result>>

Fail(e) ==
    /\ result' = Err(e)
    /\ pc' = "err"

\* let execute = self.any(); let wmctl = WmCtl::connect()?;
place_connect ==
    /\ pc = "build"
    /\ call' = [NoCall EXCEPT !.op = "place"]
    /\ loc' = [NoLoc EXCEPT !.execute = any(opt)]
    /\ \E io \in BOOLEAN :
        IF io THEN pc' = "place_active" /\ UNCHANGED result
        ELSE Fail("ConnectionError")
    /\ UNCHANGED <<opt, x11, sendpc, msg, log>>

\* let win = self.win.unwrap_or(wmctl.active_win()?);
place_active ==
    /\ pc = "place_active"
    /\ \E io \in BOOLEAN :
        LET r == Reply(io, active_win(x11)) IN
        IF r.ok
        THEN /\ loc' = [loc EXCEPT !.win = unwrap_or(opt.win, r.val)]
             /\ pc' = "place_borders"
             /\ UNCHANGED result
        ELSE Fail(r.err) /\ UNCHANGED loc
    /\ UNCHANGED <<opt, x11, call, sendpc, msg, log>>

\* let (bl, br, bt, bb) = wmctl.win_borders(win)?;
place_borders ==
    /\ pc = "place_borders"
    /\ \E io \in BOOLEAN :
        LET r == Reply(io, win_borders(x11.win)) IN
        IF r.ok
        THEN /\ loc' = [loc EXCEPT !.bw = r.val[1] + r.val[2],
                                   !.bh = r.val[3] + r.val[4]]
             /\ pc' = "place_geometry"
             /\ UNCHANGED result
        ELSE Fail(r.err) /\ UNCHANGED loc
    /\ UNCHANGED <<opt, x11, call, sendpc, msg, log>>

\* a geometry read whose error is dropped: place goes on with a 0x0 size
place_geometry_defaulting ==
    /\ pc = "place_geometry"
    /\ \E io \in GeometryIO :
        LET r == win_geometry(x11.win, io) IN
        /\ loc' = IF r.ok THEN [loc EXCEPT !.w = r.val[3], !.h = r.val[4]] ELSE loc
        /\ pc' = "place_shape"
    /\ UNCHANGED <<opt, x11, call, sendpc, msg, log, result>>

\* let (_, _, w, h) = wmctl.win_geometry(win)?;
place_geometry ==
    /\ pc = "place_geometry"
    /\ \E io \in GeometryIO, checked \in BOOLEAN :
        LET r == win_geometry(x11.win, io) IN
        IF r.ok /\ window_geometry_overflows(x11.win, io) /\ checked
        THEN /\ pc' = "panic"
             /\ result' = Err("attempt to subtract with overflow")
             /\ UNCHANGED loc
        ELSE IF r.ok
        THEN /\ loc' = [loc EXCEPT !.w = r.val[3], !.h = r.val[4]]
             /\ pc' = "place_shape"
             /\ UNCHANGED result
        ELSE Fail(r.err) /\ UNCHANGED loc
    /\ UNCHANGED <<opt, x11, call, sendpc, msg, log>>

\* "Shape the window as directed": shape_win is entered and sends its
\* state change, or the explicit size (or nothing) is taken
place_shape ==
    /\ pc = "place_shape"
    /\ IF is_some(opt.shape)
       THEN /\ msg' = shape_win_msg(loc.win, unwrap(opt.shape))
            /\ sendpc' = SendStart
            /\ pc' = "place_shape_ret"
            /\ UNCHANGED loc
       ELSE /\ loc' = IF is_some(opt.w) /\ is_some(opt.h)
                      THEN [loc EXCEPT !.gravity = None,
                                       !.sw = Some(unwrap(opt.w)),
                                       !.sh = Some(unwrap(opt.h))]
                      ELSE [loc EXCEPT !.gravity = None, !.sw = None, !.sh = None]
            /\ pc' = "place_pos"
            /\ UNCHANGED <<msg, sendpc>>
    /\ UNCHANGED <<opt, x11, call, log, result>>

\* shape_win after its state change was sent, and the gravity rule
place_shape_ret ==
    /\ pc = "place_shape_ret"
    /\ Returned
    /\ sendpc' = SendIdle
    /\ IF sendpc.st = "err"
       THEN Fail("ConnectionError") /\ UNCHANGED loc
       ELSE LET r == shape_win(x11.screen, loc.w, loc.h, loc.bw, loc.bh,
                               unwrap(opt.shape)) IN
            \E checked \in BOOLEAN :
                IF r.ovf /\ checked
                THEN /\ pc' = "panic"
                     /\ result' = Err("attempt to subtract with overflow")
                     /\ UNCHANGED loc
                ELSE /\ loc' = [loc EXCEPT !.gravity = place_gravity(opt, r.gravity),
                                           !.sw = r.w, !.sh = r.h]
                     /\ pc' = "place_pos"
                     /\ UNCHANGED result
    /\ UNCHANGED <<opt, x11, call, msg, log>>

\* a move_win that computes the position without unmaximizing first
place_pos_without_unmaximize ==
    /\ pc = "place_pos"
    /\ loc' = IF is_some(opt.pos)
              THEN LET r == move_win(x11.screen, unwrap_or(loc.sw, loc.w),
                                     unwrap_or(loc.sh, loc.h), loc.bw, loc.bh,
                                     unwrap(opt.pos))
                   IN  [loc EXCEPT !.x = r.x, !.y = r.y]
              ELSE IF is_some(opt.x) /\ is_some(opt.y)
              THEN [loc EXCEPT !.x = opt.x, !.y = opt.y]
              ELSE [loc EXCEPT !.x = None, !.y = None]
    /\ pc' = "place_exec"
    /\ UNCHANGED <<opt, x11, call, msg, sendpc, log, result>>

\* a move_win that leaves a window it was just asked to maximize maximized
place_pos_keeping_max ==
    /\ pc = "place_pos"
    /\ IF is_some(opt.pos) /\ opt.shape # Some("Max")
       THEN /\ msg' = unmaximize_win(loc.win)
            /\ sendpc' = SendStart
            /\ pc' = "place_pos_ret"
            /\ UNCHANGED loc
       ELSE /\ loc' = IF is_some(opt.pos)
                      THEN LET r == move_win(x11.screen, loc.w, loc.h, loc.bw, loc.bh,
                                             unwrap(opt.pos))
                           IN  [loc EXCEPT !.x = r.x, !.y = r.y]
                      ELSE IF is_some(opt.x) /\ is_some(opt.y)
                      THEN [loc EXCEPT !.x = opt.x, !.y = opt.y]
                      ELSE [loc EXCEPT !.x = None, !.y = None]
            /\ pc' = "place_exec"
            /\ UNCHANGED <<msg, sendpc>>
    /\ UNCHANGED <<opt, x11, call, log, result>>

\* "Position the window if directed": move_win is entered and sends its
\* unmaximize, or the explicit location (or nothing) is taken
place_pos ==
    /\ pc = "place_pos"
    /\ IF is_some(opt.pos)
       THEN /\ msg' = unmaximize_win(loc.win)
            /\ sendpc' = SendStart
            /\ pc' = "place_pos_ret"
            /\ UNCHANGED loc
       ELSE /\ loc' = IF is_some(opt.x) /\ is_some(opt.y)
                      THEN [loc EXCEPT !.x = opt.x, !.y = opt.y]
                      ELSE [loc EXCEPT !.x = None, !.y = None]
            /\ pc' = "place_exec"
            /\ UNCHANGED <<msg, sendpc>>
    /\ UNCHANGED <<opt, x11, call, log, result>>

\* move_win after its unmaximize was sent
place_pos_ret ==
    /\ pc = "place_pos_ret"
    /\ Returned
    /\ sendpc' = SendIdle
    /\ IF sendpc.st = "err"
       THEN Fail("ConnectionError") /\ UNCHANGED loc
       ELSE LET r == move_win(x11.screen, unwrap_or(loc.sw, loc.w),
                              unwrap_or(loc.sh, loc.h), loc.bw, loc.bh,
                              unwrap(opt.pos)) IN
            \E checked \in BOOLEAN :
                IF r.ovf /\ checked
                THEN /\ pc' = "panic"
                     /\ result' = Err("attempt to subtract with overflow")
                     /\ UNCHANGED loc
                ELSE /\ loc' = [loc EXCEPT !.x = r.x, !.y = r.y]
                     /\ pc' = "place_exec"
                     /\ UNCHANGED result
    /\ UNCHANGED <<opt, x11, call, msg, log>>

\* an execute that is skipped when no x, y, width or height was resolved
place_exec_only_with_geometry ==
    /\ pc = "place_exec"
    /\ IF loc.execute /\ (is_some(loc.x) \/ is_some(loc.y) \/ is_some(loc.sw) \/ is_some(loc.sh))
       THEN /\ msg' = move_resize_win(loc.win, loc.gravity, loc.x, loc.y, loc.sw, loc.sh)
            /\ sendpc' = SendStart
            /\ pc' = "place_exec_ret"
            /\ UNCHANGED result
       ELSE /\ result' = Ok(<<>>)
            /\ pc' = "done"
            /\ UNCHANGED <<msg, sendpc>>
    /\ UNCHANGED <<opt, x11, call, loc, log>>

\* "Execute if reason to"
place_exec ==
    /\ pc = "place_exec"
    /\ IF loc.execute
       THEN /\ msg' = move_resize_win(loc.win, loc.gravity, loc.x, loc.y, loc.sw, loc.sh)
            /\ sendpc' = SendStart
            /\ pc' = "place_exec_ret"
            /\ UNCHANGED result
       ELSE /\ result' = Ok(<<>>)
            /\ pc' = "done"
            /\ UNCHANGED <<msg, sendpc>>
    /\ UNCHANGED <<opt, x11, call, loc, log>>

\* wmctl.move_resize_win(...) returns
place_exec_ret ==
    /\ pc = "place_exec_ret"
    /\ Returned
    /\ sendpc' = SendIdle
    /\ result' = IF sendpc.st = "ok" THEN Ok(<<>>) ELSE Err("ConnectionError")
    /\ pc' = IF sendpc.st = "ok" THEN "done" ELSE "err"
    /\ UNCHANGED <<opt, x11, call, loc, msg, log>>

(***************************************************************************)
(* Specification                                                           *)
(***************************************************************************)
Init ==
    /\ opt = None
    /\ x11 \in [screen : Screens, win : XWindows, active : ActiveChoices]
    /\ pc = "idle"
    /\ call = NoCall
    /\ loc = NoLoc
    /\ sendpc = SendIdle
    /\ msg = NoMsg
    /\ log = <<>>
    /\ result = NoResult

Next ==
    \/ \E win \in WinArgs : new(win)
    \/ \E a \in SizeArgs : size(a[1], a[2])
    \/ \E a \in LocationArgs : location(a[1], a[2])
    \/ \E s \in WinShape : shape(s)
    \/ \E p \in WinPosition : pos(p)
    \/ place_connect
    \/ place_active
    \/ place_borders
    \/ place_geometry
    \/ place_shape
    \/ place_shape_ret
    \/ place_pos
    \/ place_pos_ret
    \/ place_exec
    \/ place_exec_ret
    \/ maximize_window(WinA)
    \/ unmaximize_window(WinA)
    \/ \E g \in GravityArgs, x, y \in CoordArgs, w, h \in DimArgs :
          move_resize_window(WinA, g, x, y, w, h)
    \/ api_return
    \/ conn_send_event
    \/ cookie_check
    \/ conn_flush
    \/ thread_sleep

Spec == Init /\ [][Next]_vars

(***************************************************************************)
(* WinMgr::connect (winmgr.rs), one action per step. log records the steps *)
(* attempted, loc is the WinMgr being filled in.                           *)
(***************************************************************************)
\* what the server may hold for the properties connect reads
WmCheckChoices == {None, Some(2)}
WmNameChoices == { <<[type_ |-> "UTF8_STRING", value |-> <<88>>],
                     [type_ |-> "NONE", value |-> <<>>],
                     [type_ |-> "NONE", value |-> <<>>]>>,
                   <<[type_ |-> "NONE", value |-> <<>>],
                     [type_ |-> "NONE", value |-> <<>>],
                     [type_ |-> "NONE", value |-> <<>>]>> }
WorkareaChoices == {None, Some(<<0, 0, 1920, 1053>>), Some(<<0, 0, 70000, 1053>>)}
DesktopsChoices == {None, Some(4)}
SelectionOwners == {0, 3}
SupportedChoices == {None, Some({}), Some({NET_WM_STATE, NET_MOVERESIZE_WINDOW})}

Step(op, ok) == [op |-> op, ok |-> ok]

\* WinMgr::id: _NET_SUPPORTING_WM_CHECK and the name of the window it names
winmgr_id(io, check, names) ==
    IF ~io THEN Err("ConnectionError")
    ELSE IF is_none(check) THEN Err("PropertyNotFound(_NET_SUPPORTING_WM_CHECK)")
    ELSE LET n == window_name(names, <<TRUE, TRUE, TRUE>>) IN
         IF n.ok THEN Ok(<<unwrap(check), n.val>>) ELSE n

\* WinMgr::workarea: width and height of _NET_WORKAREA, cut to 16 bits
workarea(io, prop) ==
    IF ~io THEN Err("ConnectionError")
    ELSE IF is_none(prop) THEN Err("PropertyNotFound(_NET_WORKAREA)")
    ELSE Ok(<<unwrap(prop)[3] % 65536, unwrap(prop)[4] % 65536>>)

\* WinMgr::desktops
desktops(io, prop) ==
    IF ~io THEN Err("ConnectionError")
    ELSE IF is_none(prop) THEN Err("PropertyNotFound(_NET_NUMBER_OF_DESKTOPS)")
    ELSE Ok(unwrap(prop))

\* WinMgr::compositing: the _NET_WM_CM_Sn selection has an owner
compositing(io, owner) ==
    IF ~io THEN Err("ConnectionError") ELSE Ok(owner # 0)

\* WinMgr::supported: the atoms of _NET_SUPPORTED, each with its name
supported(io, prop) ==
    IF ~io THEN Err("ConnectionError")
    ELSE IF is_none(prop) THEN Err("PropertyNotFound(_NET_SUPPORTED)")
    ELSE Ok(unwrap(prop))

\* let (conn, screen) = x11rb::connect(None)?;
connect_open ==
    /\ pc = "idle"
    /\ call' = [NoCall EXCEPT !.op = "connect"]
    /\ \E ok \in BOOLEAN :
        /\ log' = Append(log, Step("x11rb::connect", ok))
        /\ IF ok THEN pc' = "connect_setup" /\ UNCHANGED result
           ELSE Fail("ConnectionError")
    /\ UNCHANGED <<opt, x11, loc, sendpc, msg>>

\* "Get the screen size": read from the connection setup, no request
connect_setup ==
    /\ pc = "connect_setup"
    /\ log' = Append(log, Step("setup", TRUE))
    /\ loc' = [width |-> x11.screen.width, height |-> x11.screen.height, root |-> RootWin]
    /\ pc' = "connect_atoms"
    /\ UNCHANGED <<opt, x11, call, sendpc, msg, result>>

\* let atoms = AtomCollection::new(&conn)?.reply()?; let mut wm = WinMgr {..};
connect_atoms ==
    /\ pc = "connect_atoms"
    /\ \E ok \in BOOLEAN :
        /\ log' = Append(log, Step("atoms", ok))
        /\ IF ok
           THEN /\ loc' = [id |-> 0, name |-> <<>>, supported |-> {}, root |-> loc.root,
                           width |-> loc.width, height |-> loc.height,
                           work_width |-> 0, work_height |-> 0,
                           desktops |-> 0, compositing |-> FALSE]
                /\ pc' = "connect_id"
                /\ UNCHANGED result
           ELSE Fail("ConnectionError") /\ UNCHANGED loc
    /\ UNCHANGED <<opt, x11, call, sendpc, msg>>

\* a step whose failure is dropped: the count of desktops stays at its default
connect_desktops_defaulting ==
    /\ pc = "connect_desktops"
    /\ \E io \in BOOLEAN, prop \in DesktopsChoices :
        LET r == desktops(io, prop) IN
        /\ log' = Append(log, Step("desktops", r.ok))
        /\ loc' = IF r.ok THEN [loc EXCEPT !.desktops = r.val] ELSE loc
        /\ pc' = "connect_compositing"
    /\ UNCHANGED <<opt, x11, call, sendpc, msg, result>>

\* let (id, name) = wm.id()?;
connect_id ==
    /\ pc = "connect_id"
    /\ \E io \in BOOLEAN, check \in WmCheckChoices, names \in WmNameChoices :
        LET r == winmgr_id(io, check, names) IN
        /\ log' = Append(log, Step("id", r.ok))
        /\ IF r.ok
           THEN /\ loc' = [loc EXCEPT !.id = r.val[1], !.name = r.val[2]]
                /\ pc' = "connect_workarea"
                /\ UNCHANGED result
           ELSE Fail(r.err) /\ UNCHANGED loc
    /\ UNCHANGED <<opt, x11, call, sendpc, msg>>

\* let (width, height) = wm.workarea()?;
connect_workarea ==
    /\ pc = "connect_workarea"
    /\ \E io \in BOOLEAN, prop \in WorkareaChoices :
        LET r == workarea(io, prop) IN
        /\ log' = Append(log, Step("workarea", r.ok))
        /\ IF r.ok
           THEN /\ loc' = [loc EXCEPT !.work_width = r.val[1], !.work_height = r.val[2]]
                /\ pc' = "connect_desktops"
                /\ UNCHANGED result
           ELSE Fail(r.err) /\ UNCHANGED loc
    /\ UNCHANGED <<opt, x11, call, sendpc, msg>>

\* wm.desktops = wm.desktops()?;
connect_desktops ==
    /\ pc = "connect_desktops"
    /\ \E io \in BOOLEAN, prop \in DesktopsChoices :
        LET r == desktops(io, prop) IN
        /\ log' = Append(log, Step("desktops", r.ok))
        /\ IF r.ok
           THEN /\ loc' = [loc EXCEPT !.desktops = r.val]
                /\ pc' = "connect_compositing"
                /\ UNCHANGED result
           ELSE Fail(r.err) /\ UNCHANGED loc
    /\ UNCHANGED <<opt, x11, call, sendpc, msg>>

\* wm.compositing = wm.compositing()?;
connect_compositing ==
    /\ pc = "connect_compositing"
    /\ \E io \in BOOLEAN, owner \in SelectionOwners :
        LET r == compositing(io, owner) IN
        /\ log' = Append(log, Step("compositing", r.ok))
        /\ IF r.ok
           THEN /\ loc' = [loc EXCEPT !.compositing = r.val]
                /\ pc' = "connect_supported"
                /\ UNCHANGED result
           ELSE Fail(r.err) /\ UNCHANGED loc
    /\ UNCHANGED <<opt, x11, call, sendpc, msg>>

\* wm.supported = wm.supported()?; Ok(wm)
connect_supported ==
    /\ pc = "connect_supported"
    /\ \E io \in BOOLEAN, prop \in SupportedChoices :
        LET r == supported(io, prop) IN
        /\ log' = Append(log, Step("supported", r.ok))
        /\ IF r.ok
           THEN /\ loc' = [loc EXCEPT !.supported = r.val]
                /\ result' = Ok([loc EXCEPT !.supported = r.val])
                /\ pc' = "done"
           ELSE Fail(r.err) /\ UNCHANGED loc
    /\ UNCHANGED <<opt, x11, call, sendpc, msg>>

(***************************************************************************)
(* Queries and placement computations called on their own, with the        *)
(* server's replies and the arguments drawn from small sets                *)
(***************************************************************************)
\* windows window_geometry is asked about
GeometryWindows ==
    [gx : {5}, gy : {25}, tx : {0, 105}, ty : {225}, gw : {40, 800}, gh : {600},
     net : {None, Some(<<0, 0, 0, 0>>), Some(<<2, 2, 20, 2>>), Some(<<0, 0, 24, 0>>)},
     gtk : {None, Some(<<0, 0, 0, 0>>), Some(<<23, 23, 15, 31>>)}]

\* property values window_name is asked about: empty, "A", "BC", "e-acute",
\* a cut-off two-byte sequence, a stray continuation byte
NameValues == {<<>>, <<65>>, <<66, 67>>, <<195, 169>>, <<195>>, <<65, 169>>}
NameReplies(type) ==
    {[type_ |-> "NONE", value |-> <<>>]} \cup {[type_ |-> type, value |-> v] : v \in NameValues}
NameReplyArgs ==
    {<<a, b, c>> : a \in NameReplies("UTF8_STRING"), b \in NameReplies("UTF8_STRING"),
                   c \in NameReplies("STRING")}

\* sizes and border sums the placement computations are asked about
ShapeSizes == {1, 2, 7, 10, 15, 99, 600, 640, 800, 804}
ShapeBorders == {0, 4, 22}

\* WinMgr::window_geometry(id)
query_window_geometry ==
    /\ pc = "idle"
    /\ \E xw \in GeometryWindows, io \in GeometryIO, checked \in BOOLEAN :
        /\ call' = [op |-> "window_geometry", xw |-> xw, io |-> io]
        /\ IF window_geometry_overflows(xw, io) /\ checked
           THEN /\ pc' = "panic"
                /\ result' = Err("attempt to subtract with overflow")
           ELSE /\ result' = window_geometry(xw, io)
                /\ pc' = IF window_geometry(xw, io).ok THEN "done" ELSE "err"
    /\ UNCHANGED <<opt, x11, loc, sendpc, msg, log>>

\* WinMgr::window_name(id)
query_window_name ==
    /\ pc = "idle"
    /\ \E replies \in NameReplyArgs, io \in [1..3 -> BOOLEAN] :
        /\ call' = [op |-> "window_name", replies |-> replies, io |-> io]
        /\ result' = window_name(replies, io)
        /\ pc' = IF window_name(replies, io).ok THEN "done" ELSE "err"
    /\ UNCHANGED <<opt, x11, loc, sendpc, msg, log>>

\* the size shape_win computes for a sizing shape
compute_shape_win ==
    /\ pc = "idle"
    /\ \E w, h \in ShapeSizes, bw, bh \in ShapeBorders, s \in WinShape \ {"Max", "UnMax"},
          checked \in BOOLEAN :
        LET r == shape_win(x11.screen, w, h, bw, bh, s) IN
        /\ call' = [op |-> "shape_win", w |-> w, h |-> h, bw |-> bw, bh |-> bh, shape |-> s]
        /\ IF r.ovf /\ checked
           THEN pc' = "panic" /\ result' = Err("attempt to subtract with overflow")
           ELSE pc' = "done" /\ result' = Ok(<<r.gravity, r.w, r.h>>)
    /\ UNCHANGED <<opt, x11, loc, sendpc, msg, log>>

\* shape4x3(w, h, bw, bh)
compute_shape4x3 ==
    /\ pc = "idle"
    /\ \E w, h \in ShapeSizes, bw, bh \in ShapeBorders, checked \in BOOLEAN :
        LET r == shape4x3(w, h, bw, bh) IN
        /\ call' = [op |-> "shape4x3", w |-> w, h |-> h, bw |-> bw, bh |-> bh]
        /\ IF r.ovf /\ checked
           THEN pc' = "panic" /\ result' = Err("attempt to add with overflow")
           ELSE pc' = "done" /\ result' = Ok(<<r.w, r.h>>)
    /\ UNCHANGED <<opt, x11, loc, sendpc, msg, log>>

\* how many times shape4x3 is applied again to what it returned
MaxAgain == 2

\* shape4x3 applied to the width and height it returned, with the same
\* borders (Ratio4x3 requested again on the resized window)
compute_shape4x3_again ==
    /\ pc = "done"
    /\ call.op \in {"shape4x3", "shape4x3_again"}
    /\ is_some(result.val[1]) /\ is_some(result.val[2])
    /\ call.op = "shape4x3_again" => call.n < MaxAgain
    /\ \E checked \in BOOLEAN :
        LET w == unwrap(result.val[1])
            h == unwrap(result.val[2])
            first == call.op = "shape4x3"
            r == shape4x3(w, h, call.bw, call.bh)
        IN  /\ call' = [op |-> "shape4x3_again", w |-> w, h |-> h,
                        bw |-> call.bw, bh |-> call.bh,
                        w0 |-> IF first THEN call.w ELSE call.w0,
                        h0 |-> IF first THEN call.h ELSE call.h0,
                        n |-> IF first THEN 1 ELSE call.n + 1]
            /\ IF r.ovf /\ checked
               THEN pc' = "panic" /\ result' = Err("attempt to add with overflow")
               ELSE pc' = "done" /\ result' = Ok(<<r.w, r.h>>)
    /\ UNCHANGED <<opt, x11, loc, sendpc, msg, log>>

InitQuery ==
    /\ opt = None
    /\ x11 \in [screen : Screens, win : {CHOOSE xw \in XWindows : is_none(xw.net)},
                active : {None}]
    /\ pc = "idle"
    /\ call = NoCall
    /\ loc = NoLoc
    /\ sendpc = SendIdle
    /\ msg = NoMsg
    /\ log = <<>>
    /\ result = NoResult

NextQuery ==
    \/ query_window_geometry
    \/ query_window_name
    \/ compute_shape_win
    \/ compute_shape4x3
    \/ compute_shape4x3_again
    \/ connect_open
    \/ connect_setup
    \/ connect_atoms
    \/ connect_id
    \/ connect_workarea
    \/ connect_desktops
    \/ connect_compositing
    \/ connect_supported

SpecQuery == InitQuery /\ [][NextQuery]_vars

(***************************************************************************)
(* Properties                                                              *)
(***************************************************************************)
HasOpt == pc = "build" \/ call.op = "place"

\* positions in the log of the requests of each kind
SendIdx == {i \in DOMAIN log : log[i].op = "send_event"}
MoveResizeSends == {i \in SendIdx : log[i].msg.type = NET_MOVERESIZE_WINDOW}
StateChangeSends == {i \in SendIdx : log[i].msg.type = NET_WM_STATE}
MoveResizeEntries == {i \in DOMAIN log : log[i].msg.type = NET_MOVERESIZE_WINDOW}

NothingRequested ==
    /\ opt.w = None /\ opt.h = None /\ opt.x = None /\ opt.y = None
    /\ opt.shape = None /\ opt.pos = None

\* C1: a place() on a request with no size, location, shape or position set
\* issues no send at all, neither a state change nor a move-resize, with an
\* explicit target window and with the active window alike.
C1_NoOpSendsNothing ==
    (call.op = "place" /\ NothingRequested) =>
        /\ SendIdx = {}
        /\ sendpc = SendIdle
        /\ (pc = "done" => result.ok)

C1_Witness ==
    /\ call.op = "place" /\ NothingRequested
    /\ opt.win = Some(WinA)
    /\ pc = "done" /\ result.ok
    /\ log = <<>>

\* C2: in every WinOpt the builder calls can produce, a shape is set only
\* while no explicit width/height is set and a pos only while no explicit
\* x/y is set; once a size (location) is set, every later step leaves the
\* shape (pos) unset.
C2_PresetExcludesExplicit ==
    /\ [](HasOpt =>
            /\ (is_some(opt.shape) => is_none(opt.w) /\ is_none(opt.h))
            /\ (is_some(opt.pos) => is_none(opt.x) /\ is_none(opt.y)))
    /\ [][(HasOpt /\ is_some(opt.w)) => opt'.shape = None]_vars
    /\ [][(HasOpt /\ is_some(opt.x)) => opt'.pos = None]_vars

C2_Witness ==
    /\ pc = "build"
    /\ is_some(opt.w) /\ is_some(opt.h) /\ is_none(opt.shape)
    /\ is_some(opt.pos) /\ is_none(opt.x)

\* the operation returned Ok and asked for a move-resize
MoveResizeDone ==
    /\ pc = "done"
    /\ call.op = "move_resize_window" \/ (call.op = "place" /\ loc.execute)

\* C3: a successful move_resize_window call has sent its message exactly
\* twice, both times to the root window and both times the same message,
\* with the one 50 ms wait between the two sends; there is never a third.
C3_MoveResizeSentTwice ==
    /\ Cardinality(MoveResizeSends) <= 2
    /\ MoveResizeDone =>
         \E i, j, k \in DOMAIN log :
            /\ i < j /\ j < k
            /\ MoveResizeSends = {i, k}
            /\ log[i].ok /\ log[k].ok
            /\ log[i].dest = RootWin /\ log[k].dest = RootWin
            /\ log[i].msg = log[k].msg
            /\ log[i].msg.window = (IF call.op = "place" THEN loc.win ELSE call.id)
            /\ log[j].op = "sleep" /\ log[j].ms = 50
            /\ \A s \in DOMAIN log : log[s].op = "sleep" => s = j

C3_Witness ==
    /\ pc = "done" /\ call.op = "move_resize_window"
    /\ Cardinality(MoveResizeSends) = 2

\* send_event has returned from delivering a move-resize message
MoveResizeReturned == Returned /\ msg.type = NET_MOVERESIZE_WINDOW

\* the first send of the move-resize message, its check and its flush all succeeded
FirstDeliveryOk ==
    \E i \in MoveResizeEntries :
        /\ \A e \in MoveResizeEntries : i <= e
        /\ i + 2 \in DOMAIN log
        /\ log[i].op = "send_event"
        /\ log[i].ok /\ log[i + 1].ok /\ log[i + 2].ok

\* C4 as claimed: whenever send_event returns from a move-resize message,
\* the second send has been made, whatever the first send, check and flush did.
C4_SecondSendUnconditional ==
    MoveResizeReturned => Cardinality(MoveResizeSends) = 2

\* C4: the second send of a move-resize message is made exactly when the
\* first send, its check and its flush all succeeded; if one of them fails
\* send_event returns that error after the single send.
C4_SecondSendAfterFirstSucceeded ==
    /\ Cardinality(MoveResizeSends) = 2 => FirstDeliveryOk
    /\ MoveResizeReturned =>
         /\ FirstDeliveryOk => Cardinality(MoveResizeSends) = 2
         /\ ~FirstDeliveryOk => sendpc.st = "err" /\ Cardinality(MoveResizeSends) = 1

C4_Witness ==
    /\ MoveResizeReturned
    /\ sendpc.st = "err"
    /\ Cardinality(MoveResizeSends) = 1
    /\ \E i \in MoveResizeEntries : log[i].op = "check" /\ ~log[i].ok

\* C5: maximize_window and unmaximize_window deliver one _NET_WM_STATE
\* message with parameters (add or remove, MAXIMIZED_HORZ, MAXIMIZED_VERT,
\* 0, 0) and never wait to resend it; inside place every state change is
\* sent once per shape or position step.
C5_StateChangeSentOnce ==
    /\ \A i \in DOMAIN log : log[i].op = "sleep" => log[i].msg.type # NET_WM_STATE
    /\ call.op \in {"maximize_window", "unmaximize_window"} =>
         /\ Cardinality(SendIdx) <= 1
         /\ pc = "done" =>
              /\ Cardinality(SendIdx) = 1
              /\ \A i \in SendIdx :
                    /\ log[i].ok
                    /\ log[i].msg =
                         [format |-> 32, window |-> call.id, type |-> NET_WM_STATE,
                          data |-> <<IF call.op = "maximize_window"
                                     THEN WINDOW_STATE_ACTION_ADD
                                     ELSE WINDOW_STATE_ACTION_REMOVE,
                                     NET_WM_STATE_MAXIMIZED_HORZ,
                                     NET_WM_STATE_MAXIMIZED_VERT, 0, 0>>]
    /\ call.op = "place" =>
         Cardinality(StateChangeSends) <=
            (IF is_some(opt.shape) THEN 1 ELSE 0) + (IF is_some(opt.pos) THEN 1 ELSE 0)

C5_Witness ==
    /\ pc = "done" /\ call.op = "maximize_window"
    /\ Len(log) = 3
    /\ log[1].op = "send_event" /\ log[1].msg.data[1] = WINDOW_STATE_ACTION_ADD

\* C6 as claimed: the confirmation of a send comes after the flush of that
\* send (send, flush, confirm).
C6_FlushBeforeConfirm ==
    \A j \in DOMAIN log :
        log[j].op = "check" =>
            \E s, f \in DOMAIN log :
                /\ s < f /\ f < j
                /\ log[s].op = "send_event" /\ log[f].op = "flush"
                /\ \A t \in DOMAIN log : (s < t /\ t < j) => log[t].op # "send_event"

\* C6: every delivery sends to the root window under the
\* substructure-redirect|substructure-notify mask, then synchronously
\* confirms that send, then flushes: a flush always directly follows the
\* successful confirmation of the send before it, and a completed
\* send_event ends with a flush.
C6_SendConfirmFlush ==
    /\ \A j \in DOMAIN log :
        /\ log[j].op = "send_event" =>
              /\ log[j].dest = RootWin
              /\ log[j].mask = {"SUBSTRUCTURE_REDIRECT", "SUBSTRUCTURE_NOTIFY"}
        /\ log[j].op = "check" =>
              /\ j > 1
              /\ log[j - 1].op = "send_event" /\ log[j - 1].ok
              /\ log[j - 1].msg = log[j].msg
        /\ log[j].op = "flush" =>
              /\ j > 2
              /\ log[j - 1].op = "check" /\ log[j - 1].ok
              /\ log[j - 2].op = "send_event"
    /\ sendpc.st = "ok" =>
         /\ Len(log) >= 3
         /\ log[Len(log)].op = "flush" /\ log[Len(log)].ok

C6_Witness ==
    /\ sendpc.st = "ok"
    /\ Len(log) = 3
    /\ log[1].op = "send_event" /\ log[2].op = "check" /\ log[3].op = "flush"

\* the flags word f and parameters d of a move-resize for the given arguments
FlagsEncode(d, g, x, y, w, h) ==
    /\ d[1] >= 0 /\ d[1] < Pow2(FlagBits)
    /\ \A i \in 0..(FlagBits - 1) :
          (Bit(d[1], i) = 1) <=>
             \/ Bit(unwrap_or(g, 0), i) = 1
             \/ x # None /\ Bit(MOVE_RESIZE_WINDOW_X, i) = 1
             \/ y # None /\ Bit(MOVE_RESIZE_WINDOW_Y, i) = 1
             \/ w # None /\ Bit(MOVE_RESIZE_WINDOW_WIDTH, i) = 1
             \/ h # None /\ Bit(MOVE_RESIZE_WINDOW_HEIGHT, i) = 1
    /\ d[2] = (IF x = None THEN 0 ELSE x[1])
    /\ d[3] = (IF y = None THEN 0 ELSE y[1])
    /\ d[4] = (IF w = None THEN 0 ELSE w[1])
    /\ d[5] = (IF h = None THEN 0 ELSE h[1])

\* C7: in the message move_resize_window builds, the flags word is the
\* gravity (0 when absent) OR-ed with exactly the presence bits
\* of the fields that are present, and parameters 1..4 are the value of a
\* present field and 0 for an absent one; width+height only gives gravity
\* plus the width and height bits and x = y = 0.
C7_FlagsEncoding ==
    /\ (call.op = "move_resize_window" /\ pc # "idle") =>
         /\ msg.type = NET_MOVERESIZE_WINDOW /\ msg.window = call.id
         /\ FlagsEncode(msg.data, call.gravity, call.x, call.y, call.w, call.h)
         /\ (call.x = None /\ call.y = None /\ call.w # None /\ call.h # None
             /\ unwrap_or(call.gravity, 0) < 256) =>
               /\ msg.data[1] = unwrap_or(call.gravity, 0)
                                  + MOVE_RESIZE_WINDOW_WIDTH + MOVE_RESIZE_WINDOW_HEIGHT
               /\ msg.data[2] = 0 /\ msg.data[3] = 0
    /\ (call.op = "place" /\ pc = "place_exec_ret") =>
         /\ msg.type = NET_MOVERESIZE_WINDOW /\ msg.window = loc.win
         /\ FlagsEncode(msg.data, loc.gravity, loc.x, loc.y, loc.sw, loc.sh)

C7_Witness ==
    /\ call.op = "move_resize_window" /\ pc = "done"
    /\ call.x = None /\ call.y = None /\ call.w = Some(7) /\ call.h = Some(7)
    /\ call.gravity = Some(GravityCenter)
    /\ msg.data = <<3077, 0, 0, 7, 7>>

SizingShapeUnpositioned ==
    /\ is_some(opt.shape) /\ unwrap(opt.shape) \notin {"Max", "UnMax"}
    /\ is_none(opt.pos) /\ is_none(opt.x) /\ is_none(opt.y)

\* C8: the move-resize message place dispatches carries gravity Center
\* in its low byte exactly when a shape other than Max/UnMax is requested
\* and neither a position preset nor an explicit location is; otherwise
\* the low byte is 0.
C8_GravityOnlyForUnpositionedSizing ==
    call.op = "place" =>
        /\ pc = "place_exec_ret" =>
              msg.data[1] % 256 = (IF SizingShapeUnpositioned THEN GravityCenter ELSE 0)
        /\ \A i \in MoveResizeSends :
              log[i].msg.data[1] % 256 = (IF SizingShapeUnpositioned THEN GravityCenter ELSE 0)

C8_Witness ==
    /\ call.op = "place" /\ pc = "done"
    /\ opt.shape = Some("Grow") /\ is_none(opt.pos) /\ is_none(opt.x)
    /\ Cardinality(MoveResizeSends) = 2
    /\ \A i \in MoveResizeSends : log[i].msg.data[1] % 256 = GravityCenter

\* C9 as claimed: a target window without _NET_FRAME_EXTENTS never makes
\* place return PropertyNotFound for it.
C9_MissingBordersDoNotFail ==
    (call.op = "place" /\ is_none(x11.win.net)) =>
        result.err # "PropertyNotFound(_NET_FRAME_EXTENTS)"

\* the size place positions and the presets of each axis
TargetW == unwrap_or(loc.sw, loc.w)
TargetH == unwrap_or(loc.sh, loc.h)
CenterX == x11.screen.work_width \div 2 - (TargetW + loc.bw) \div 2
CenterY == x11.screen.work_height \div 2 - (TargetH + loc.bh) \div 2
RightX == x11.screen.work_width - TargetW - loc.bw
BottomY == x11.screen.work_height - TargetH - loc.bh

\* move_win has returned a position for the preset of the request
PositionResolved == call.op = "place" /\ pc = "place_exec" /\ is_some(opt.pos)

\* C10 as claimed: every preset yields both an x and a y.
C10_BothAxesResolved ==
    PositionResolved =>
        /\ loc.x \in {Some(0), Some(CenterX), Some(RightX)}
        /\ loc.y \in {Some(0), Some(CenterY), Some(BottomY)}

\* C10: every preset resolves each axis independently to one of {left
\* alone, 0, center, far edge}: Left and Right set x only (0, right_x), Top
\* and Bottom set y only (0, bottom_y), the nine other presets set both an
\* x in {0, center_x, right_x} and a y in {0, center_y, bottom_y}
\* (TopRight = (right_x, 0), Center = (center_x, center_y)).
C10_EachAxisUnsetOrPreset ==
    PositionResolved =>
        LET p == unwrap(opt.pos) IN
        /\ loc.x \in {None, Some(0), Some(CenterX), Some(RightX)}
        /\ loc.y \in {None, Some(0), Some(CenterY), Some(BottomY)}
        /\ is_none(loc.x) <=> p \in {"Top", "Bottom"}
        /\ is_none(loc.y) <=> p \in {"Left", "Right"}
        /\ p = "Left" => loc.x = Some(0)
        /\ p = "Right" => loc.x = Some(RightX)
        /\ p = "Top" => loc.y = Some(0)
        /\ p = "Bottom" => loc.y = Some(BottomY)
        /\ p = "TopRight" => loc.x = Some(RightX) /\ loc.y = Some(0)
        /\ p = "Center" => loc.x = Some(CenterX) /\ loc.y = Some(CenterY)

C10_Witness ==
    /\ PositionResolved
    /\ opt.pos = Some("Left")
    /\ loc.x = Some(0) /\ loc.y = None

\* what the server holds for the target window: its border sums and its size
\* as the session resolves it
BorderW == unwrap(x11.win.net)[1] + unwrap(x11.win.net)[2]
BorderH == unwrap(x11.win.net)[3] + unwrap(x11.win.net)[4]
CurrentW == window_geometry(x11.win, AllAnswered).val[3]
CurrentH == window_geometry(x11.win, AllAnswered).val[4]

\* C11: the position handed to the move-resize is computed as
\* center_x = work_w/2 - (w+border_w)/2, center_y = work_h/2 - (h+border_h)/2,
\* right_x = work_w - w - border_w, bottom_y = work_h - h - border_h, with
\* w, h the explicit size when one was given, else the size the shape resolved
\* to, else the window's current size; on a 1920x1080 work area with an
\* 800x600 target and zero borders Center is (560, 240), TopRight is (1120, 0)
\* and BottomLeft is (0, 480).
C11_PositionFromTargetSize ==
    PositionResolved =>
        LET p == unwrap(opt.pos)
            work_w == x11.screen.work_width
            work_h == x11.screen.work_height
            w == IF is_some(opt.w) THEN unwrap(opt.w)
                 ELSE IF is_some(loc.sw) THEN unwrap(loc.sw) ELSE CurrentW
            h == IF is_some(opt.h) THEN unwrap(opt.h)
                 ELSE IF is_some(loc.sh) THEN unwrap(loc.sh) ELSE CurrentH
            center_x == work_w \div 2 - (w + BorderW) \div 2
            center_y == work_h \div 2 - (h + BorderH) \div 2
            right_x == work_w - w - BorderW
            bottom_y == work_h - h - BorderH
        IN  /\ is_none(opt.shape) /\ is_none(opt.w) => is_none(loc.sw) /\ is_none(loc.sh)
            /\ p \in {"Center", "TopCenter", "BottomCenter"} => loc.x = Some(center_x)
            /\ p \in {"Center", "LeftCenter", "RightCenter"} => loc.y = Some(center_y)
            /\ p \in {"Right", "TopRight", "BottomRight", "RightCenter"} => loc.x = Some(right_x)
            /\ p \in {"Bottom", "BottomLeft", "BottomRight", "BottomCenter"} => loc.y = Some(bottom_y)
            /\ p \in {"Left", "TopLeft", "BottomLeft", "LeftCenter"} => loc.x = Some(0)
            /\ p \in {"Top", "TopLeft", "TopRight", "TopCenter"} => loc.y = Some(0)
            /\ (work_w = 1920 /\ work_h = 1080 /\ w = 800 /\ h = 600
                /\ BorderW = 0 /\ BorderH = 0) =>
                  /\ p = "Center" => loc.x = Some(560) /\ loc.y = Some(240)
                  /\ p = "TopRight" => loc.x = Some(1120) /\ loc.y = Some(0)
                  /\ p = "BottomLeft" => loc.x = Some(0) /\ loc.y = Some(480)

C11_Witness ==
    /\ PositionResolved
    /\ opt.pos = Some("Center") /\ opt.w = Some(800) /\ opt.h = Some(600)
    /\ x11.screen.work_width = 1920 /\ x11.screen.work_height = 1080
    /\ loc.bw = 0 /\ loc.bh = 0
    /\ loc.x = Some(560) /\ loc.y = Some(240)

MaxOrUnMax ==
    call.op = "place" /\ is_some(opt.shape) /\ unwrap(opt.shape) \in {"Max", "UnMax"}

\* C12: for shape Max and shape UnMax no width, height or gravity is
\* resolved: the first thing sent is the maximize (Max) or unmaximize (UnMax)
\* state change for the target window, and the move-resize that follows has
\* neither the width nor the height presence bit, zero width and height
\* parameters and gravity 0.
C12_MaxUnMaxNoGeometry ==
    MaxOrUnMax =>
        /\ loc.sw = None /\ loc.sh = None /\ loc.gravity = None
        /\ \A i \in SendIdx :
              (\A j \in SendIdx : i <= j) =>
                 log[i].msg =
                    [format |-> 32, window |-> loc.win, type |-> NET_WM_STATE,
                     data |-> <<IF unwrap(opt.shape) = "Max"
                                THEN WINDOW_STATE_ACTION_ADD
                                ELSE WINDOW_STATE_ACTION_REMOVE,
                                NET_WM_STATE_MAXIMIZED_HORZ,
                                NET_WM_STATE_MAXIMIZED_VERT, 0, 0>>]
        /\ \A i \in MoveResizeSends :
              /\ BitOr(log[i].msg.data[1], MOVE_RESIZE_WINDOW_WIDTH) # log[i].msg.data[1]
              /\ BitOr(log[i].msg.data[1], MOVE_RESIZE_WINDOW_HEIGHT) # log[i].msg.data[1]
              /\ log[i].msg.data[1] % 256 = 0
              /\ log[i].msg.data[4] = 0 /\ log[i].msg.data[5] = 0
              /\ StateChangeSends # {}

C12_Witness ==
    /\ MaxOrUnMax /\ pc = "done"
    /\ opt.shape = Some("Max") /\ is_none(opt.pos) /\ is_none(opt.x)
    /\ Cardinality(StateChangeSends) = 1
    /\ Cardinality(MoveResizeSends) = 2
    /\ \A i \in MoveResizeSends : log[i].msg.data = <<0, 0, 0, 0, 0>>

\* place is reading the target: its id, its borders, its geometry
ReadingTarget == pc \in {"place_active", "place_borders", "place_geometry"}

\* C19: place reads the target window (id, borders, geometry) before
\* it sends anything: while it reads nothing has been sent, a read that fails
\* ends place with that error and an empty transport log, and whenever
\* something has been sent the borders and the geometry were read and are the
\* ones the server holds.
C19_ReadsBeforeSends ==
    /\ [](call.op = "place" =>
            /\ ReadingTarget => log = <<>> /\ sendpc = SendIdle
            /\ (log # <<>> \/ sendpc # SendIdle) =>
                  /\ is_some(x11.win.net)
                  /\ loc.bw = BorderW /\ loc.bh = BorderH
                  /\ loc.w = CurrentW /\ loc.h = CurrentH
                  /\ loc.win = unwrap_or(opt.win, unwrap_or(x11.active, 0)))
    /\ [][(call.op = "place" /\ ReadingTarget /\ ~ReadingTarget') =>
            \/ pc' = "err" /\ ~result'.ok /\ log' = <<>> /\ sendpc' = SendIdle
            \/ pc' = "place_shape" /\ loc'.w = CurrentW /\ loc'.h = CurrentH]_vars

C19_Witness ==
    /\ call.op = "place" /\ pc = "err"
    /\ opt.shape = Some("Grow")
    /\ is_none(x11.win.net)
    /\ result.err = "PropertyNotFound(_NET_FRAME_EXTENTS)"
    /\ log = <<>>

\* C20 as claimed: with an explicit window id, a missing _NET_ACTIVE_WINDOW
\* never makes place fail.
C20_ExplicitTargetIgnoresActive ==
    (call.op = "place" /\ is_some(opt.win)) =>
        result.err # "PropertyNotFound(_NET_ACTIVE_WINDOW)"

\* a sizing computation returned for the given shape
ShapeComputed(s) == call.op = "shape_win" /\ pc = "done" /\ call.shape = s

\* C13 as claimed: Grow returns (trunc(1.1*w), trunc(1.1*h)) and Shrink
\* returns (trunc(0.9*w), trunc(0.9*h)).
C13_GrowShrinkTruncateScaled ==
    /\ ShapeComputed("Grow") =>
          /\ result.val[2] = Some((11 * call.w) \div 10)
          /\ result.val[3] = Some((11 * call.h) \div 10)
    /\ ShapeComputed("Shrink") =>
          /\ result.val[2] = Some((9 * call.w) \div 10)
          /\ result.val[3] = Some((9 * call.h) \div 10)

\* C13: Grow and Shrink add and subtract the truncated tenth of the
\* current width and height: Grow returns (trunc(1.1*w), trunc(1.1*h)),
\* Shrink returns (w - trunc(0.1*w), h - trunc(0.1*h)), which is 0.9*w and
\* 0.9*h rounded up.
C13_TruncatedTenthAddedOrRemoved ==
    /\ ShapeComputed("Grow") =>
          /\ result.val[2] = Some((11 * call.w) \div 10)
          /\ result.val[3] = Some((11 * call.h) \div 10)
    /\ ShapeComputed("Shrink") =>
          /\ result.val[2] = Some(call.w - (call.w \div 10))
          /\ result.val[3] = Some(call.h - (call.h \div 10))
          /\ result.val[2] = Some((9 * call.w + 9) \div 10)
          /\ result.val[3] = Some((9 * call.h + 9) \div 10)

C13_Witness ==
    /\ ShapeComputed("Shrink")
    /\ call.w = 15 /\ call.h = 804
    /\ result.val[2] = Some(14) /\ result.val[3] = Some(724)

\* width W and height H are in a 4:3 ratio up to the truncation of one side
Ratio4x3(W, H) == 3 * W - 4 * H \in -4..4

\* C14 as claimed: with unequal totals, shape4x3 keeps the longer side,
\* changes the shorter one, and the result is 4:3 (as the window's size or as
\* its size with borders) up to truncation.
C14_ShorterSideTo4x3 ==
    (call.op = "shape4x3" /\ pc = "done") =>
        LET tw == call.w + call.bw
            th == call.h + call.bh
            rw == result.val[1]
            rh == result.val[2]
        IN  /\ tw > th =>
                 /\ rw = Some(call.w) /\ is_some(rh)
                 /\ \/ Ratio4x3(unwrap(rw), unwrap(rh))
                    \/ Ratio4x3(unwrap(rw) + call.bw, unwrap(rh) + call.bh)
            /\ th > tw =>
                 /\ rh = Some(call.h) /\ is_some(rw)
                 /\ \/ Ratio4x3(unwrap(rw), unwrap(rh))
                    \/ Ratio4x3(unwrap(rw) + call.bw, unwrap(rh) + call.bh)

\* window_geometry was asked and the requests it needs first were answered
GeometryAsked ==
    /\ call.op = "window_geometry"
    /\ call.io["get_geometry"] /\ call.io["translate_coordinates"]
    /\ call.io["_NET_FRAME_EXTENTS"]
    /\ is_some(call.xw.net)

C16_ShadowExtentsContract ==
    (GeometryAsked /\ unwrap(call.xw.net) = <<0, 0, 0, 0>>
                   /\ call.io["_GTK_FRAME_EXTENTS"]) =>
        LET xw == call.xw
            g == IF xw.gtk = None THEN <<0, 0, 0, 0>> ELSE unwrap(xw.gtk)
        IN  /\ pc \in {"done", "panic"}
            /\ pc = "panic" => xw.gw < g[1] + g[2] \/ xw.gh < g[3] + g[4]
            /\ pc = "done" =>
                  result = Ok(<<xw.tx + g[1], xw.ty + g[3],
                                xw.gw - g[1] - g[2], xw.gh - g[3] - g[4]>>)
            /\ (pc = "done" /\ xw.gtk \in {None, Some(<<0, 0, 0, 0>>)}) =>
                  result = Ok(<<xw.tx, xw.ty, xw.gw, xw.gh>>)
            /\ xw.gtk = None => pc = "done"

C16_Witness ==
    /\ GeometryAsked /\ pc = "done"
    /\ call.xw.net = Some(<<0, 0, 0, 0>>)
    /\ call.xw.gtk = Some(<<23, 23, 15, 31>>)
    /\ call.xw.tx = 105 /\ call.xw.gw = 800
    /\ result.val = <<128, 240, 754, 554>>

\* the values of NameValues that decode to a non-empty string
DecodableNames == {<<65>>, <<66, 67>>, <<195, 169>>}
UsableName(reply) == reply.type_ # "NONE" /\ reply.value \in DecodableNames
\* the first of the three properties with a usable name, 4 when none has one
FirstUsable(replies) ==
    IF UsableName(replies[1]) THEN 1
    ELSE IF UsableName(replies[2]) THEN 2
    ELSE IF UsableName(replies[3]) THEN 3 ELSE 4

\* C17: window_name returns the value of the first of
\* _NET_WM_VISIBLE_NAME, _NET_WM_NAME, WM_NAME that is present and decodes to
\* a non-empty string; a later property is asked for only when every earlier
\* one is absent, undecodable or empty; when none of the three is usable the
\* result is PropertyNotFound. (A request that is not answered ends the call
\* with the transport's error.)
C17_FirstUsableNameWins ==
    call.op = "window_name" =>
        LET first == FirstUsable(call.replies)
            asked == {i \in 1..3 : i <= first}
        IN  /\ (\A i \in asked : call.io[i]) =>
                  IF first <= 3
                  THEN pc = "done" /\ result = Ok(call.replies[first].value)
                  ELSE pc = "err"
                       /\ result = Err("PropertyNotFound(_NET_WM_NAME | _WM_NAME)")
            /\ (\E i \in asked : ~call.io[i]) =>
                  pc = "err" /\ result = Err("ConnectionError")

C17_Witness ==
    /\ call.op = "window_name" /\ pc = "done"
    /\ call.replies[1] = [type_ |-> "UTF8_STRING", value |-> <<195>>]
    /\ call.replies[2] = [type_ |-> "UTF8_STRING", value |-> <<66, 67>>]
    /\ call.replies[3] = [type_ |-> "STRING", value |-> <<65>>]
    /\ ~call.io[3]
    /\ result.val = <<66, 67>>

\* the steps of connect, in order
ConnectOrder == <<"x11rb::connect", "setup", "atoms", "id", "workarea",
                  "desktops", "compositing", "supported">>

\* C18: connect takes its steps in the fixed order open transport,
\* screen size and root, atoms, window-manager id and name, work area,
\* desktop count, compositing, supported functions; a step that fails is the
\* last one attempted and ends connect with an error and no session; a
\* session is returned only after all eight steps succeeded.
C18_ConnectOrderAndAbort ==
    call.op = "connect" =>
        /\ Len(log) <= Len(ConnectOrder)
        /\ \A i \in DOMAIN log : log[i].op = ConnectOrder[i]
        /\ \A i \in DOMAIN log :
              ~log[i].ok => i = Len(log) /\ pc = "err" /\ ~result.ok /\ result.val = <<>>
        /\ pc = "err" <=> (log # <<>> /\ ~log[Len(log)].ok)
        /\ result.ok <=> pc = "done"
        /\ pc = "done" =>
              /\ Len(log) = Len(ConnectOrder)
              /\ \A i \in DOMAIN log : log[i].ok
              /\ result.val.root = RootWin
              /\ result.val.width = x11.screen.width

C18_Witness ==
    /\ call.op = "connect" /\ pc = "err"
    /\ Len(log) = 5
    /\ log[5] = [op |-> "workarea", ok |-> FALSE]
    /\ \A i \in 1..4 : log[i].ok
    /\ result.err = "PropertyNotFound(_NET_WORKAREA)"

\* place returned Ok
PlaceDone == call.op = "place" /\ pc = "done"

\* C21: a place() with at least one field set that returns Ok has
\* dispatched exactly one move-resize action for the target window (its one
\* message delivered by the two sends of send_event), also when the only
\* field is shape Max or UnMax, and that action is the last thing sent: every
\* state-change request precedes every move-resize request and the transport
\* log ends with the move-resize.
C21_OneMoveResizeLast ==
    /\ call.op = "place" =>
          \A s \in StateChangeSends, m \in MoveResizeEntries : s < m
    /\ (PlaceDone /\ ~NothingRequested) =>
          /\ result.ok
          /\ Cardinality(MoveResizeSends) = 2
          /\ \A i, j \in MoveResizeSends :
                /\ log[i].msg = log[j].msg
                /\ log[i].msg.window = loc.win
                /\ log[i].ok
          /\ \A i \in DOMAIN log :
                (\E m \in MoveResizeSends : m <= i) =>
                    log[i].msg.type = NET_MOVERESIZE_WINDOW
          /\ log[Len(log)].op = "flush" /\ log[Len(log)].ok

C21_Witness ==
    /\ PlaceDone
    /\ opt.shape = Some("UnMax")
    /\ is_none(opt.pos) /\ is_none(opt.x) /\ is_none(opt.w)
    /\ Len(log) = 10
    /\ StateChangeSends = {1}
    /\ MoveResizeSends = {4, 8}
    /\ log[4].msg.window = loc.win

\* the request at position i of the log went through: sent, checked, flushed
Delivered(i) ==
    /\ log[i].op = "send_event" /\ log[i].ok
    /\ i + 2 \in DOMAIN log
    /\ log[i + 1].op = "check" /\ log[i + 1].ok
    /\ log[i + 2].op = "flush" /\ log[i + 2].ok

\* the state change that removes both maximized states of window win
RemoveMaximized(win) ==
    [format |-> 32, window |-> win, type |-> NET_WM_STATE,
     data |-> <<WINDOW_STATE_ACTION_REMOVE, NET_WM_STATE_MAXIMIZED_HORZ,
                NET_WM_STATE_MAXIMIZED_VERT, 0, 0>>]

\* the state changes a request with a preset position sends: one for its
\* shape when it has one, and the unmaximize of the position
PresetStateChanges == (IF is_some(opt.shape) THEN 1 ELSE 0) + 1

\* C22: for every WinPosition preset, before any x or y is computed and
\* before the move-resize is sent, an unmaximize state change for the target
\* window has been sent, checked and flushed, and it is the last state change
\* of the request; when that unmaximize fails place ends in an error with no
\* x, no y and no move-resize request.
C22_UnmaximizeBeforePosition ==
    (call.op = "place" /\ is_some(opt.pos)) =>
        /\ (\/ is_some(loc.x) \/ is_some(loc.y) \/ MoveResizeEntries # {}
            \/ pc \in {"place_exec", "place_exec_ret", "done"}) =>
              /\ Cardinality(StateChangeSends) = PresetStateChanges
              /\ \E i \in StateChangeSends :
                    /\ \A j \in StateChangeSends : j <= i
                    /\ log[i].msg = RemoveMaximized(loc.win)
                    /\ Delivered(i)
                    /\ \A m \in MoveResizeEntries : i < m
        /\ (/\ Cardinality(StateChangeSends) = PresetStateChanges
            /\ \E i \in StateChangeSends :
                  (\A j \in StateChangeSends : j <= i) /\ ~Delivered(i)) =>
              /\ pc \in {"place_pos_ret", "err"}
              /\ pc = "place_pos_ret" => sendpc.st \in {"run", "err"}
              /\ loc.x = None /\ loc.y = None
              /\ MoveResizeEntries = {}

C22_Witness ==
    /\ PlaceDone
    /\ opt.pos = Some("Bottom") /\ is_none(opt.shape)
    /\ StateChangeSends = {1}
    /\ log[1].msg = RemoveMaximized(loc.win)
    /\ MoveResizeSends = {4, 8}
    /\ is_none(loc.x) /\ is_some(loc.y)

\* C24: a request with shape Max and a preset position sends the
\* maximize first, then the unmaximize of the position, then the move-resize:
\* at most two state changes are sent, the first adds the maximized states,
\* the second removes them, the move-resize is sent only after both, and so
\* once place has returned Ok the last state change sent is the removal.
C24_MaxThenUnmaximize ==
    (call.op = "place" /\ opt.shape = Some("Max") /\ is_some(opt.pos)) =>
        /\ Cardinality(StateChangeSends) <= 2
        /\ \A i \in StateChangeSends :
              /\ log[i].msg.window = loc.win
              /\ log[i].msg.data[2] = NET_WM_STATE_MAXIMIZED_HORZ
              /\ log[i].msg.data[3] = NET_WM_STATE_MAXIMIZED_VERT
              /\ (\A j \in StateChangeSends : i <= j) =>
                    log[i].msg.data[1] = WINDOW_STATE_ACTION_ADD
              /\ (\E j \in StateChangeSends : j < i) =>
                    log[i].msg.data[1] = WINDOW_STATE_ACTION_REMOVE
        /\ (MoveResizeEntries # {} \/ pc = "done") =>
              /\ Cardinality(StateChangeSends) = 2
              /\ \A i \in StateChangeSends, m \in MoveResizeEntries : i < m
              /\ \E i \in StateChangeSends :
                    /\ \A j \in StateChangeSends : j <= i
                    /\ log[i].msg.data[1] = WINDOW_STATE_ACTION_REMOVE

C24_Witness ==
    /\ PlaceDone
    /\ opt.shape = Some("Max") /\ opt.pos = Some("Center")
    /\ StateChangeSends = {1, 4}
    /\ log[1].msg.data[1] = WINDOW_STATE_ACTION_ADD
    /\ log[4].msg.data[1] = WINDOW_STATE_ACTION_REMOVE
    /\ MoveResizeSends = {7, 11}
    /\ Len(log) = 13

\* C23: with tw = w + bw and th = h + bh, shape4x3(w, h, bw, bh)
\* returns width w and height trunc((tw - bh) * 3/4) when tw > th, width
\* trunc((th + bh) * 4/3) and height h when th > tw, and no width and no
\* height when tw = th; tw - bh is never below zero where it is computed, so
\* the call never aborts on it.
C23_Shape4x3Formulas ==
    call.op = "shape4x3" =>
        LET tw == call.w + call.bw
            th == call.h + call.bh
        IN  /\ pc = "done" /\ result.ok
            /\ tw > th =>
                  /\ tw - call.bh >= 0
                  /\ result.val = <<Some(call.w), Some((3 * (tw - call.bh)) \div 4)>>
            /\ th > tw =>
                  result.val = <<Some((4 * (th + call.bh)) \div 3), Some(call.h)>>
            /\ tw = th => result.val = <<None, None>>

C23_Witness ==
    /\ call.op = "shape4x3" /\ pc = "done"
    /\ call.w = 800 /\ call.h = 600 /\ call.bw = 4 /\ call.bh = 22
    /\ result.val = <<Some(800), Some(586)>>

\* shape4x3 was applied to its own result and returned
AppliedAgain == call.op = "shape4x3_again" /\ pc = "done"

\* the second result is the first one, or "no change"
SameAgain == result.val \in {<<Some(call.w), Some(call.h)>>, <<None, None>>}

\* C25 as claimed: applying shape4x3 to the width and height it produced,
\* with the same borders, produces that width and height again or reports
\* no change.
C25_Shape4x3Idempotent == AppliedAgain => SameAgain

\* C25: shape4x3 applied to its own result keeps the width; it
\* reproduces the result (or reports no change) when the first application
\* had tw > th, but when the first application had th > tw the second one
\* recomputes the height as trunc((w' + bw - bh) * 3/4) from the new width
\* w', which need not be h (or reports no change when the new totals are
\* equal); every application after the second reproduces its input.
C25_IdempotentAfterHeightBranch ==
    call.op = "shape4x3_again" =>
        LET tw0 == call.w0 + call.bw
            th0 == call.h0 + call.bh
        IN  /\ pc = "done" /\ result.ok
            /\ result.val[1] \in {Some(call.w), None}
            /\ (call.n = 1 /\ tw0 > th0) => SameAgain
            /\ (call.n = 1 /\ th0 > tw0) =>
                  IF call.w + call.bw = call.h + call.bh
                  THEN result.val = <<None, None>>
                  ELSE result.val = <<Some(call.w),
                                      Some((3 * (call.w + call.bw - call.bh)) \div 4)>>
            /\ call.n >= 2 => SameAgain

C25_Witness ==
    /\ AppliedAgain /\ call.n = 1
    /\ call.w0 = 600 /\ call.h0 = 800 /\ call.bw = 0 /\ call.bh = 0
    /\ call.w = 1066 /\ call.h = 800
    /\ result.val = <<Some(1066), Some(799)>>

\* C26 as claimed: the subtractions of placement never go below zero:
\* once move_win is entered, work_w/2 - (w+bw)/2, work_h/2 - (h+bh)/2,
\* work_w - w - bw and work_h - h - bh are non-negative for the target size
\* w, h; once shape_win is entered for Halfw, Halfh or Small, work_w/2 - bw
\* and work_h/2 - bh are non-negative; and place never aborts on an overflow
\* after it has started sending.
C26_PlacementSubtractionsNonNegative ==
    call.op = "place" =>
        /\ (is_some(opt.pos) /\
             pc \in {"place_pos_ret", "place_exec", "place_exec_ret", "done"}) =>
              /\ CenterX >= 0 /\ CenterY >= 0
              /\ RightX >= 0 /\ BottomY >= 0
              /\ \A v \in {loc.x, loc.y} : is_some(v) => unwrap(v) >= 0
        /\ (opt.shape \in {Some("Halfw"), Some("Halfh"), Some("Small")} /\
             pc \notin {"place_active", "place_borders", "place_geometry",
                        "place_shape", "err", "panic"}) =>
              /\ x11.screen.work_width \div 2 - loc.bw >= 0
              /\ x11.screen.work_height \div 2 - loc.bh >= 0
        /\ pc = "panic" => log = <<>>

==============================================================================
